---------------------------- MODULE Spec2Model ----------------------------
(***************************************************************************)
(* grup: a markdown previewer with live reload.  The model covers main()   *)
(* of src/src/grup.rs: start-up (file checks, inotify subscription, watch  *)
(* registration), the watcher thread that sets the shared flag `modified`, *)
(* and the request handler whose /update branch polls that flag with an    *)
(* atomic compare-and-swap.                                                *)
(*                                                                         *)
(* A path or a string is a sequence of tokens: a token is a separator "/"  *)
(* or one path component.  Two strings are equal exactly when their token  *)
(* sequences are equal.                                                    *)
(***************************************************************************)
EXTENDS Naturals, Sequences, FiniteSets

\* ------------------------------------------------------------- bounds
\* number of request-handling threads that may run /update concurrently
NumClients == 2
\* longest batch of events one read_events_blocking call returns
MaxBatch == 2
\* number of stores of the watcher that CountSpec counts: when it is reached,
\* the directory reports no further change of the target
MaxStores == 2

\* ------------------------------------------------ program constants
\* `let interval = 60;`
interval == 60

\* --------------------------------------------------------- Option<T>
None == [some |-> FALSE]
Some(x) == [some |-> TRUE, val |-> x]

\* --------------------------------------------------------------- inputs
\* the command-line argument markdown_file (cfg.md_file)
Targets ==
    { <<"notes.md">>,
      <<"docs", "/", "notes.md">>,
      <<".", "/", "notes.md">>,
      <<"/", "notes.md">> }

\* entries of the watched directory that the filesystem reports on
DirEntries == {"notes.md", "other.md"}

\* events of the inotify subscription: an entry of the watched directory
\* created or modified (these carry the entry's name), or an event without
\* a name (queue overflow)
Events ==
    { [mask |-> {k}, name |-> Some(<<n>>)] : k \in {"CREATE", "MODIFY"}, n \in DirEntries }
      \cup { [mask |-> {"Q_OVERFLOW"}, name |-> None] }

Clients == 1..NumClients

\* request paths a client may ask for
Paths == {"/update", "/style.css", "/"}

VARIABLES
    mainPc,     \* position of the main thread in main()
    file,       \* cfg.md_file, the watch target
    inotify,    \* "none" | "open" | "failed": the inotify instance
    parent,     \* the resolved parent directory (a path)
    watch,      \* the watch on the parent directory: NoWatch, WatchFailed or Watching(..)
    modified,   \* the shared AtomicBool
    watcher,    \* "unspawned" | "blocked" | "handling" | "panicked"
    events,     \* number of events of the current batch still to be handled
    pc,         \* per client: "idle" | "run" (inside the /update loop)
    tries,      \* per client: compare_and_swap operations of the running call that saw false
    res,        \* per client: body of the last /update response; "none" before it
    served,     \* whether the request handler has been entered
    obs,        \* history, per client: what its current (or last) call has lived through
    lastYes,    \* history: the client answered "yes" last while no store has
                \* followed (a set: empty, or that one client)
    stores,     \* history, kept by CountSpec: stores of the watcher so far
    yeses       \* history, kept by CountSpec: "yes" responses so far

vars == << mainPc, file, inotify, parent, watch, modified, watcher, events,
           pc, tries, res, served, obs, lastYes, stores, yeses >>

mainVars == << mainPc, file, inotify, parent, watch >>
watcherVars == << watcher, events >>
pollVars == << pc, tries, res >>
histVars == << obs, lastYes >>
countVars == << stores, yeses >>

\* ------------------------------------------------------ pure functions
Last(s) == s[Len(s)]
Front(s) == SubSeq(s, 1, Len(s) - 1)

\* Path::to_str: the path as a string
ToStr(path) == path

\* Path::parent: the path without its final component; None for the empty
\* path and for the root
PathParent(path) ==
    IF path = <<>> \/ Last(path) = "/"
    THEN None
    ELSE LET rest == Front(path)
         IN  IF rest = <<>> \/ rest = <<"/">>
             THEN Some(rest)
             ELSE Some(Front(rest))

\* Path::file_name: the final component
FileName(path) == <<Last(path)>>

\* faulty variant, to try the properties against: an empty parent is used as it is
ResolveParentAsIs(path) ==
    LET p == PathParent(path)
    IN  IF p.some THEN p.val ELSE <<".">>

\* the parent directory main() resolves
ResolveParent(path) ==
    LET p == PathParent(path)
    IN  IF p.some
        THEN IF ToStr(p.val) # <<>> THEN p.val ELSE <<".">>
        ELSE <<".">>

\* the watch main() registers
NoWatch == [state |-> "none"]
WatchFailed == [state |-> "failed"]
Watching(dir, mask) == [state |-> "ok", dir |-> dir, mask |-> mask]

\* faulty variant, to try the properties against: the watcher does not filter by name
NameMatchesAny(name, path) == TRUE

\* the watcher's test of one event's name against the watch target
NameMatches(name, path) == name = ToStr(path)

\* faulty variant, to try the properties against: a plain load, which leaves the flag as it is
CompareAndSwapLoadOnly(value, current, new) ==
    [prev |-> value, next |-> value]

\* faulty variant, to try the properties against: the operation reports true whatever the flag holds
CompareAndSwapAlwaysTrue(value, current, new) ==
    [prev |-> TRUE, next |-> new]

\* faulty variant, to try the properties against: the flag is reset without being tested
CompareAndSwapClearOnly(value, current, new) ==
    [prev |-> FALSE, next |-> new]

\* AtomicBool::compare_and_swap(current, new): the previous value, and the
\* value stored
CompareAndSwap(value, current, new) ==
    [prev |-> value, next |-> IF value = current THEN new ELSE value]

\* ---------------------------------------------------- history variables
\* obs[p] describes the call of client p that is running, or its last one:
\*   "void"      none of the cases below
\*   "clean"     the flag was false when the call started and the watcher has
\*               stored nothing since
\*   "cleanSole" as "clean", and no other call has been in flight since it started
\*   "skipSole"  as "cleanSole", and the watcher has handled an event whose name
\*               did not match
\*   "hitSole"   the flag was false when the call started, no other call has
\*               been in flight since, and the watcher has stored exactly once,
\*               before the call's last compare_and_swap
\*   "lateSole"  as "hitSole", but the store came after the call's last
\*               compare_and_swap, in the sleep that follows it
\*   "cohit"     the flag was false when the call started and the watcher has
\*               stored exactly once since, while another "clean" call was in
\*               flight too
\*   "stale"     the flag was true when the call started and the watcher has
\*               stored nothing since
\*   "staleSole" as "stale", and when the call started no other call in
\*               flight had a compare_and_swap ahead of it (each was idle or
\*               in the sleep after its last one), and no other call has
\*               started since
\*   "staleFirst" as "staleSole", but another call has started since
\* A call that has returned keeps its value until the client calls again or
\* the watcher stores again: a value always tells of the latest store.
CleanObs == {"clean", "cleanSole", "skipSole"}
SoleCleanObs == {"cleanSole", "skipSole"}
StaleObs == {"stale", "staleSole", "staleFirst"}

\* a call of p starts: it is not sole if another is in flight, and the others
\* in flight stop being sole
ObsOnStart(p) ==
    LET others == {q \in Clients \ {p} : pc[q] = "run"}
    IN  [q \in Clients |->
           IF q = p
           THEN IF modified
                THEN IF \A r \in others : tries[r] = interval
                     THEN "staleSole" ELSE "stale"
                ELSE IF others = {} THEN "cleanSole" ELSE "clean"
           ELSE IF pc[q] # "run" THEN obs[q]
                ELSE IF obs[q] \in SoleCleanObs THEN "clean"
                ELSE IF obs[q] = "staleSole" THEN "staleFirst"
                ELSE IF obs[q] \in {"hitSole", "lateSole"} THEN "void"
                ELSE obs[q]]

\* the watcher stores true
ObsOnStore ==
    LET clean == {q \in Clients : pc[q] = "run" /\ obs[q] \in CleanObs}
    IN  [q \in Clients |->
           IF pc[q] # "run" \/ obs[q] \notin CleanObs THEN "void"
           ELSE IF Cardinality(clean) >= 2 THEN "cohit"
           ELSE IF obs[q] \notin SoleCleanObs THEN "void"
           ELSE IF tries[q] < interval THEN "hitSole" ELSE "lateSole"]

\* the watcher handles an event whose name does not match
ObsOnSkip ==
    [q \in Clients |->
        IF pc[q] = "run" /\ obs[q] = "cleanSole" THEN "skipSole" ELSE obs[q]]

\* --------------------------------------------------------------- Init
Init ==
    /\ mainPc = "check_file"
    /\ file \in Targets
    /\ inotify = "none"
    /\ parent = <<>>
    /\ watch = NoWatch
    /\ modified = FALSE
    /\ watcher = "unspawned"
    /\ events = 0
    /\ pc = [p \in Clients |-> "idle"]
    /\ tries = [p \in Clients |-> 0]
    /\ res = [p \in Clients |-> "none"]
    /\ served = FALSE
    /\ obs = [p \in Clients |-> "void"]
    /\ lastYes = {}
    /\ stores = 0
    /\ yeses = 0

\* ------------------------------------------------------- main thread
\* file.exists() / file.is_file(): exit(-1) unless the target is a file
CheckFile ==
    /\ mainPc = "check_file"
    /\ \E isFile \in BOOLEAN :
          mainPc' = IF isFile THEN "inotify_init" ELSE "exited"
    /\ UNCHANGED << file, inotify, parent, watch, modified, watcherVars, pollVars,
                    served, histVars >>

\* Inotify::init().expect(..), then the parent resolution
InotifyInit ==
    /\ mainPc = "inotify_init"
    /\ \E ok \in BOOLEAN :
          IF ok
          THEN /\ inotify' = "open"
               /\ parent' = ResolveParent(file)
               /\ mainPc' = "add_watch"
          ELSE /\ inotify' = "failed"
               /\ mainPc' = "exited"
               /\ UNCHANGED parent
    /\ UNCHANGED << file, watch, modified, watcherVars, pollVars, served, histVars >>

\* faulty variant, to try the properties against: a failure of add_watch is ignored
AddWatchUnchecked ==
    /\ mainPc = "add_watch"
    /\ \E ok \in BOOLEAN :
          watch' = IF ok THEN Watching(parent, {"MODIFY", "CREATE"}) ELSE WatchFailed
    /\ mainPc' = "spawn"
    /\ UNCHANGED << file, inotify, parent, modified, watcherVars, pollVars,
                    served, histVars >>

\* inotify.add_watch(&parent, MODIFY | CREATE).expect(..)
AddWatch ==
    /\ mainPc = "add_watch"
    /\ \E ok \in BOOLEAN :
          IF ok
          THEN /\ watch' = Watching(parent, {"MODIFY", "CREATE"})
               /\ mainPc' = "spawn"
          ELSE /\ watch' = WatchFailed
               /\ mainPc' = "exited"
    /\ UNCHANGED << file, inotify, parent, modified, watcherVars, pollVars,
                    served, histVars >>

\* modified = AtomicBool::new(false); thread::spawn(watcher)
Spawn ==
    /\ mainPc = "spawn"
    /\ modified' = FALSE
    /\ watcher' = "blocked"
    /\ mainPc' = "server_new"
    /\ UNCHANGED << file, inotify, parent, watch, events, pollVars, served, histVars >>

\* Server::new(handler); server.listen(..)
Listen ==
    /\ mainPc = "server_new"
    /\ mainPc' = "listen"
    /\ UNCHANGED << file, inotify, parent, watch, modified, watcherVars, pollVars,
                    served, histVars >>

\* ---------------------------------------------------- watcher thread
\* the process is alive: main() has not exited
Running == mainPc # "exited"

\* read_events_blocking(..).expect(..): a batch of events, or a panic of the
\* watcher thread on a read error
ReadEvents ==
    /\ Running
    /\ watcher = "blocked"
    /\ \/ \E n \in 1..MaxBatch :
             /\ events' = n
             /\ watcher' = "handling"
       \/ /\ watcher' = "panicked"
          /\ UNCHANGED events
    /\ UNCHANGED << mainVars, modified, pollVars, served, histVars >>

\* one iteration of `for event in events`; the content of the event is
\* chosen when the loop reaches it
HandleEvent(event) ==
    /\ Running
    /\ watcher = "handling"
    /\ IF ~event.name.some
       THEN \* event.name.unwrap() panics
            /\ watcher' = "panicked"
            /\ events' = 0
            /\ UNCHANGED << modified, histVars >>
       ELSE /\ IF NameMatches(event.name.val, file)
               THEN /\ modified' = TRUE
                    /\ obs' = ObsOnStore
                    /\ lastYes' = {}
               ELSE /\ obs' = ObsOnSkip
                    /\ UNCHANGED << modified, lastYes >>
            /\ events' = events - 1
            /\ watcher' = IF events = 1 THEN "blocked" ELSE "handling"
    /\ UNCHANGED << mainVars, pollVars, served >>

\* --------------------------------------------------- request handler
\* a request for /update enters the polling loop
StartUpdate(p) ==
    /\ mainPc = "listen"
    /\ pc[p] = "idle"
    /\ pc' = [pc EXCEPT ![p] = "run"]
    /\ tries' = [tries EXCEPT ![p] = 0]
    /\ res' = [res EXCEPT ![p] = "none"]
    /\ served' = TRUE
    /\ obs' = ObsOnStart(p)
    /\ UNCHANGED << mainVars, modified, watcherVars, lastYes >>

\* faulty variant, to try the properties against: the loop runs over 0..=interval, one iteration too many
TestAndClearInclusive(p) ==
    /\ mainPc # "exited"
    /\ pc[p] = "run"
    /\ tries[p] <= interval
    /\ IF modified
       THEN /\ modified' = FALSE
            /\ res' = [res EXCEPT ![p] = "yes"]
            /\ pc' = [pc EXCEPT ![p] = "idle"]
            /\ tries' = [tries EXCEPT ![p] = 0]
            /\ lastYes' = {p}
       ELSE /\ tries' = [tries EXCEPT ![p] = tries[p] + 1]
            /\ UNCHANGED << modified, pc, res, lastYes >>
    /\ UNCHANGED << mainVars, watcherVars, served, obs >>

\* one loop iteration: the compare_and_swap; "yes" if it saw true, else the
\* sleep that follows it
TestAndClear(p) ==
    /\ Running
    /\ pc[p] = "run"
    /\ tries[p] < interval
    /\ LET cas == CompareAndSwap(modified, TRUE, FALSE)
       IN  /\ modified' = cas.next
           /\ IF cas.prev = TRUE
              THEN /\ res' = [res EXCEPT ![p] = "yes"]
                   /\ pc' = [pc EXCEPT ![p] = "idle"]
                   /\ tries' = [tries EXCEPT ![p] = 0]
                   /\ lastYes' = {p}
              ELSE /\ tries' = [tries EXCEPT ![p] = tries[p] + 1]
                   /\ UNCHANGED << pc, res, lastYes >>
    /\ UNCHANGED << mainVars, watcherVars, served, obs >>

\* faulty variant, to try the properties against: the handler gives up before the loop has run out
TimeOutEarly(p) ==
    /\ mainPc # "exited"
    /\ pc[p] = "run"
    /\ tries[p] >= 1
    /\ res' = [res EXCEPT ![p] = "no"]
    /\ pc' = [pc EXCEPT ![p] = "idle"]
    /\ tries' = [tries EXCEPT ![p] = 0]
    /\ UNCHANGED << mainVars, modified, watcherVars, served, histVars >>

\* the loop has run out: "no"
TimeOut(p) ==
    /\ Running
    /\ pc[p] = "run"
    /\ tries[p] = interval
    /\ res' = [res EXCEPT ![p] = "no"]
    /\ pc' = [pc EXCEPT ![p] = "idle"]
    /\ tries' = [tries EXCEPT ![p] = 0]
    /\ UNCHANGED << mainVars, modified, watcherVars, served, histVars >>

\* faulty variant, to try the properties against: rendering the page resets the flag
ServeOtherResets(path) ==
    /\ mainPc = "listen"
    /\ served' = TRUE
    /\ modified' = FALSE
    /\ UNCHANGED << mainVars, watcherVars, pollVars, histVars >>

\* a request for /style.css or for the document
ServeOther(path) ==
    /\ mainPc = "listen"
    /\ served' = TRUE
    /\ UNCHANGED << mainVars, modified, watcherVars, pollVars, histVars >>

Next ==
    \/ CheckFile /\ UNCHANGED countVars
    \/ InotifyInit /\ UNCHANGED countVars
    \/ AddWatch /\ UNCHANGED countVars
    \/ Spawn /\ UNCHANGED countVars
    \/ Listen /\ UNCHANGED countVars
    \/ ReadEvents /\ UNCHANGED countVars
    \/ \E event \in Events : HandleEvent(event) /\ UNCHANGED countVars
    \/ \E p \in Clients : StartUpdate(p) /\ UNCHANGED countVars
    \/ \E p \in Clients : TestAndClear(p) /\ UNCHANGED countVars
    \/ \E p \in Clients : TimeOut(p) /\ UNCHANGED countVars
    \/ \E path \in Paths \ {"/update"} : ServeOther(path) /\ UNCHANGED countVars

\* the program, its stores and responses not counted
Spec == Init /\ [][Next]_vars

\* the watcher's step on one event, counted: a store adds one to `stores`
CountEvent(event) ==
    IF event.name.some /\ NameMatches(event.name.val, file)
    THEN /\ stores < MaxStores
         /\ stores' = stores + 1
         /\ UNCHANGED yeses
    ELSE UNCHANGED countVars

\* the step of the /update loop of p, counted: a "yes" response adds one to
\* `yeses`
CountAnswer(p) ==
    IF pc'[p] = "idle" /\ res'[p] = "yes"
    THEN /\ yeses' = yeses + 1
         /\ UNCHANGED stores
    ELSE UNCHANGED countVars

CountNext ==
    \/ CheckFile /\ UNCHANGED countVars
    \/ InotifyInit /\ UNCHANGED countVars
    \/ AddWatch /\ UNCHANGED countVars
    \/ Spawn /\ UNCHANGED countVars
    \/ Listen /\ UNCHANGED countVars
    \/ ReadEvents /\ UNCHANGED countVars
    \/ \E event \in Events : HandleEvent(event) /\ CountEvent(event)
    \/ \E p \in Clients : StartUpdate(p) /\ UNCHANGED countVars
    \/ \E p \in Clients : TestAndClear(p) /\ CountAnswer(p)
    \/ \E p \in Clients : TimeOut(p) /\ UNCHANGED countVars
    \/ \E path \in Paths \ {"/update"} : ServeOther(path) /\ UNCHANGED countVars

\* the program with its stores and its "yes" responses counted, up to
\* MaxStores stores
CountSpec == Init /\ [][CountNext]_vars

\* the threads of the request handler are scheduled: a call in its loop
\* takes its next step
Fairness ==
    \A p \in Clients :
        /\ WF_vars(TestAndClear(p) /\ UNCHANGED countVars)
        /\ WF_vars(TimeOut(p) /\ UNCHANGED countVars)

FairSpec == Spec /\ Fairness

\* the page's script keeps calling /update: setInterval(reload_check, ..)
Polling == WF_vars((\E p \in Clients : StartUpdate(p)) /\ UNCHANGED countVars)

LiveSpec == FairSpec /\ Polling

\* ------------------------------------------------------------ claims
\* the step in which the call of p returns
ReturnStep(p) == pc[p] = "run" /\ pc'[p] = "idle"
YesStep(p) == ReturnStep(p) /\ res'[p] = "yes"

\* C1 (clear-on-read): a client that was answered "yes" is not answered "yes"
\* again unless the watcher has stored in between (p \in lastYes says that p
\* was answered "yes" and that the watcher has stored nothing since).
C1_ClearOnRead == [][\A p \in Clients : YesStep(p) => p \notin lastYes]_vars

\* a later call of the client that was answered "yes" has returned "no", with
\* no store in between
C1_Witness == \E p \in Clients : p \in lastYes /\ pc[p] = "idle" /\ res[p] = "no"

C3_SingleSlot ==
    \A p, q \in Clients :
        (p # q /\ pc[p] = "idle" /\ pc[q] = "idle"
             /\ obs[p] = "cohit" /\ obs[q] = "cohit")
        => ~(res[p] = "yes" /\ res[q] = "yes")

\* one of the two was answered "yes", the other ran out its window: "no"
C3_Witness ==
    \E p, q \in Clients :
        /\ p # q /\ pc[p] = "idle" /\ pc[q] = "idle"
        /\ obs[p] = "cohit" /\ obs[q] = "cohit"
        /\ res[p] = "yes" /\ res[q] = "no"

\* C4 as claimed (no false positive): a call during which the watcher stored
\* nothing returns "no" after all 60 iterations, whatever the flag held when
\* the call started.
C4_NoStoreMeansNo ==
    [][\A p \in Clients :
          (ReturnStep(p) /\ obs[p] \in CleanObs \cup StaleObs)
          => (res'[p] = "no" /\ tries[p] = interval)]_vars

\* C4 as amended: a call that started with the flag false and during which the
\* watcher stored nothing returns "no" after all 60 iterations.
C4_CleanMeansNo ==
    [][\A p \in Clients :
          (ReturnStep(p) /\ obs[p] \in CleanObs)
          => (res'[p] = "no" /\ tries[p] = interval)]_vars

\* such a call has returned "no"
C4_Witness ==
    \E p \in Clients : pc[p] = "idle" /\ obs[p] \in CleanObs /\ res[p] = "no"

\* C5 (name filtering): handling an event whose name is not the name of the
\* watch target leaves the flag as it is; and a call that started with the
\* flag false and saw only such events returns "no".
C5_NameFiltering ==
    /\ [][\A event \in Events :
             (HandleEvent(event) /\ event.name # Some(FileName(file)))
             => modified' = modified]_vars
    /\ [](\A p \in Clients :
             pc[p] = "idle" /\ obs[p] = "skipSole" => res[p] = "no")

\* a call during which only events of another name were handled has returned "no"
C5_Witness ==
    \E p \in Clients : pc[p] = "idle" /\ obs[p] = "skipSole" /\ res[p] = "no"

\* C6 (base-name matching): whatever the path of the watch target, handling an
\* event whose name is the target's file name sets the flag.
C6_BaseNameSetsFlag ==
    [][\A event \in Events :
          (HandleEvent(event) /\ event.name = Some(FileName(file)))
          => modified']_vars

\* C7 (termination): a call returns "yes" only in a step in which its own
\* compare_and_swap saw true and cleared the flag, "no" only after 60
\* operations that saw false; it makes no more than 60, has no other result,
\* and every call that has started returns.
C7_PollTerminates ==
    /\ [][\A p \in Clients :
             ReturnStep(p) =>
                \/ res'[p] = "yes" /\ modified /\ ~modified' /\ tries[p] < interval
                \/ res'[p] = "no" /\ tries[p] = interval /\ modified' = modified]_vars
    /\ [](\A p \in Clients :
             /\ tries[p] <= interval
             /\ res[p] \in {"none", "yes", "no"}
             /\ pc[p] = "run" => res[p] = "none")
    /\ \A p \in Clients : (pc[p] = "run") ~> (pc[p] = "idle")

\* one call has returned "yes" and another "no"
C7_Witness ==
    \E p, q \in Clients :
        pc[p] = "idle" /\ pc[q] = "idle" /\ res[p] = "yes" /\ res[q] = "no"

\* C8 (start-up is fatal on failure): when Inotify::init or add_watch has
\* failed, the process has exited, the watcher was never spawned and no
\* request is served; when a request is served, the subscription is open and
\* the watch on the resolved parent directory is registered.
C8_StartupFatal ==
    /\ (inotify = "failed" \/ watch.state = "failed")
          => (mainPc = "exited" /\ watcher = "unspawned" /\ ~served
                /\ \A p \in Clients : pc[p] = "idle" /\ res[p] = "none")
    /\ (served \/ \E p \in Clients : pc[p] = "run" \/ res[p] # "none")
          => (inotify = "open" /\ watch = Watching(parent, {"MODIFY", "CREATE"})
                /\ watcher # "unspawned")

\* add_watch has failed and the process has exited
C8_Witness ==
    inotify = "open" /\ watch.state = "failed" /\ mainPc = "exited" /\ ~served

\* C9 (the watcher never ends): whenever the server is handling requests,
\* the watcher thread is running, blocked in its read or handling a batch.
C9_WatcherKeepsRunning ==
    mainPc = "listen" => watcher \in {"blocked", "handling"}

\* C10 (no degraded mode): once the watcher thread has ended, no /update
\* request is taken up any more.
C10_NoDegradedMode ==
    [][watcher = "panicked" =>
          \A p \in Clients : ~(pc[p] = "idle" /\ pc'[p] = "run")]_vars

\* the step in which the watcher handles an event whose name matches and stores
StoreStep ==
    \E event \in Events :
        HandleEvent(event) /\ event.name.some /\ NameMatches(event.name.val, file)

\* C11 (access discipline, no lost update): the flag is false until the watcher
\* runs; it goes from false to true only in a store of the watcher on a
\* matching event, and from true to false only in the compare_and_swap of a
\* call that returns "yes" in that step; a store leaves the flag true, and the
\* flag then stays true until such a step.
C11_AccessDiscipline ==
    /\ [](watcher = "unspawned" => ~modified)
    /\ [][(~modified /\ modified') => StoreStep]_vars
    /\ [][(modified /\ ~modified') =>
             \E p \in Clients : TestAndClear(p) /\ YesStep(p)]_vars
    /\ [][StoreStep => modified']_vars
    /\ [][\A p \in Clients : (TestAndClear(p) /\ modified) => YesStep(p)]_vars

\* a store has been consumed by a call that was answered "yes"
C11_Witness ==
    \E p \in Clients : p \in lastYes /\ res[p] = "yes" /\ ~modified

\* C12 (at most one "yes" per change): the number of "yes" responses produced
\* so far is at most the number of matching events at which the watcher has
\* stored so far; and when the flag is set, one of the stores is still
\* unanswered.
C12_YesAtMostStores ==
    /\ yeses <= stores
    /\ modified => yeses < stores

\* two clients have polled, one after the other or at once, around two
\* stores: both stores have been answered, and a call has since returned "no"
C12_Witness ==
    /\ stores = 2 /\ yeses = 2
    /\ \E p \in Clients : pc[p] = "idle" /\ res[p] = "no"

C15_Frame ==
    /\ [][\A path \in Paths \ {"/update"} :
             ServeOther(path) => modified' = modified]_vars
    /\ [][\A p \in Clients :
             (\/ StartUpdate(p)
              \/ TimeOut(p)
              \/ TestAndClear(p) /\ ~YesStep(p)) => modified' = modified]_vars
    /\ [][modified' # modified =>
             (StoreStep \/ \E p \in Clients : TestAndClear(p))]_vars

\* the handler has served a request, none of them for /update, while the flag
\* was set or before the watcher set it: the flag is set
C15_Witness ==
    /\ served /\ modified
    /\ \A p \in Clients : pc[p] = "idle" /\ res[p] = "none"

\* C16 (watched-directory resolution): once the watch is registered, its
\* directory is the parent of the target path when the path has a parent that
\* is not the empty string, and "." otherwise; joining that parent and the
\* target's file name gives back the target path; and the watch is for the
\* event kinds MODIFY and CREATE, no other.
C16_WatchedDirectory ==
    watch.state = "ok" =>
        /\ watch.mask = {"MODIFY", "CREATE"}
        /\ LET p == PathParent(file)
           IN  IF p.some /\ p.val # <<>>
               THEN /\ watch.dir = p.val
                    /\ file = IF p.val = <<"/">>
                              THEN p.val \o FileName(file)
                              ELSE p.val \o <<"/">> \o FileName(file)
               ELSE /\ watch.dir = <<".">>
                    /\ file = FileName(file)

\* the watch is registered for a target given as a bare file name: on "."
C16_Witness ==
    /\ watch.state = "ok"
    /\ file = <<"notes.md">>
    /\ watch.dir = <<".">>
    /\ mainPc = "listen"
=============================================================================
